---- MODULE Spec2Model ----
(***************************************************************************)
(* A model of citro3d/src/lib.rs: the Instance type (the graphics context) *)
(* and the citro3d_sys driver calls that each of its methods issues.       *)
(*                                                                         *)
(* The application is the environment: it constructs and drops instances,  *)
(* opens frame brackets with render_frame_with and, inside or outside a    *)
(* bracket, calls the methods of the instance it holds.  The driver is     *)
(* represented by the state it keeps (active flag, buffer and attribute    *)
(* descriptors, bound target) and by the calls it receives.                *)
(***************************************************************************)
EXTENDS Integers, Sequences, FiniteSets, TLC

\* ------------------------------------------------------------- bounds
\* Instance slots the application can hold at once.
MaxInstances == 2
\* Nesting depth of render_frame_with invocations in progress.
MaxDepth == 2
\* Largest index an application passes to texenv::Stage::new.
MaxStageInput == 6
\* Longest index sequence passed to draw_elements.
MaxIndexLen == 2
\* Texture-environment stages an application configures in one context.
MaxStagesUsed == 1
\* The same, for an application that is mainly configuring its combiners.
MaxStagesCombined == 2

\* -------------------------------------------------- program constants
\* The number of texture-environment stages (the six OnceCell slots).
TEXENV_COUNT == 6
\* citro3d_sys::C3D_DEFAULT_CMDBUF_SIZE, the size Instance::new passes.
C3D_DEFAULT_CMDBUF_SIZE == 262144
\* citro3d_sys::C3D_FRAME_SYNCDRAW, the flag render_frame_with passes.
C3D_FRAME_SYNCDRAW == 1
\* citro3d_sys::C3D_UNSIGNED_SHORT / C3D_UNSIGNED_BYTE element-size flags.
C3D_UNSIGNED_SHORT == 1
C3D_UNSIGNED_BYTE == 0
\* The linear (GPU-visible) region of the modelled address space is
\* LinearBase .. LinearEnd - 1; addresses below LinearBase are ordinary heap.
LinearBase == 1
LinearEnd == 2

\* ------------------------------------------------------- input domains
Slots == 1..MaxInstances
StageIndices == 0..(TEXENV_COUNT - 1)
StageInputs == 0..MaxStageInput
CmdBufSizes == {C3D_DEFAULT_CMDBUF_SIZE, 4096}
Addrs == 0..(LinearEnd - 1)

\* buffer::Info values: stride, attribute count, permutation mask.
EmptyBufInfo == [stride |-> 0, attrs |-> 0, perm |-> 0]
BufInfos == {[stride |-> 24, attrs |-> 2, perm |-> 16],
             [stride |-> 12, attrs |-> 1, perm |-> 0]}
\* attrib::Info values: attribute count and permutation.
EmptyAttrInfo == [count |-> 0, perm |-> 0]
AttrInfos == {[count |-> 2, perm |-> 16]}
\* render::Target handles; the driver accepts or refuses each.
Targets == {"top", "bottom"}
Primitives == {"Triangles", "TriangleStrip"}
\* shader::Program handles.
Programs == {"program"}
\* Uniform values by variant, and the uniform::Index values they are bound at.
Uniforms == {"Matrix4x4", "FVec4"}
UniformIndices == {0}
\* texenv::CombineFunc values an application sets on a stage.
CombineFuncs == {"Modulate", "Add"}
\* Index sequences: the IndexType variant, the length, the address of the data.
IndexBufs == [kind : {"U16", "U8"}, len : 1..MaxIndexLen, ptr : Addrs]
\* buffer::Slice values: the buffer::Info of the buffer, first index, length.
Slices == [info : BufInfos, index : {0}, len : {3}]

\* --------------------------------------------------------------- state
VARIABLES
    instances,  \* slot -> the Instance held there (status, texenvs, counters)
    stack,      \* render_frame_with invocations in progress, innermost last
    fatal,      \* a panic was raised and the program is unwinding
    active,     \* driver: C3D_Init succeeded and C3D_Fini has not run since
    open,       \* driver: C3D_FrameBegin calls not yet matched by C3D_FrameEnd
    bufInfo,    \* driver: the buffer descriptor it holds
    attrInfo,   \* driver: the attribute descriptor it holds
    target,     \* driver: the render target bound by C3D_FrameDrawOn
    calls,      \* the driver calls issued by the most recent operation
    lastOp,     \* the most recent operation: name, arguments, result
    finished,   \* the most recently ended render_frame_with invocation
    held,       \* the Option<buffer::Info> the application last obtained
    trace       \* the driver calls recorded so far, when they are recorded

vars == <<instances, stack, fatal, active, open, bufInfo, attrInfo, target,
          calls, lastOp, finished, held, trace>>

driver == <<active, open, bufInfo, attrInfo, target>>

\* ------------------------------------------------------------- values
\* Option<Info>: None, or Some descriptor.  A descriptor is held by value, or
\* (alias) is a view of the driver's own storage.
None == [some |-> FALSE, alias |-> FALSE, val |-> "none"]
Some(v) == [some |-> TRUE, alias |-> FALSE, val |-> v]

\* The number of calls of driver function fn in the call sequence cs.
IsCall(c, fn) == c.fn = fn
Count(cs, fn) == Cardinality({k \in 1..Len(cs) : IsCall(cs[k], fn)})

\* The record of the driver calls: kept from the start of the program when a
\* run is recorded (the call counting of the scenario tests), left empty when
\* it is not.
NotRecording == [on |-> FALSE, calls |-> <<>>]
Recording == [on |-> TRUE, calls |-> <<>>]
Record(cs) == IF trace.on THEN [trace EXCEPT !.calls = @ \o cs] ELSE trace

\* OnceCell<TexEnv>: empty, or holding the TexEnv that TexEnv::new returned.
EmptyCell == [set |-> FALSE]
FullCell(t) == [set |-> TRUE, val |-> t]

NoInstance == [status |-> "none",
               texenvs |-> [i \in StageIndices |-> EmptyCell],
               inits |-> [i \in StageIndices |-> 0],
               finis |-> 0]

Live(s) == instances[s].status = "live"
LiveSlots == {s \in Slots : Live(s)}

\* render_frame_with not holding the Instance borrowed while the body runs.
Borrowed_nothing == {}

\* The slots a render_frame_with invocation in progress holds borrowed.
Borrowed == {stack[k].inst : k \in 1..Len(stack)}

\* The instance an operation can be called on: inside a bracket body only the
\* reference the body was handed, outside a bracket any instance held.
Callable(s) ==
    /\ ~fatal
    /\ Live(s)
    /\ (stack # <<>> => stack[Len(stack)].inst = s)

\* ------------------------------------------------------------- driver
\* C3D_Init's result: it refuses when the driver is already initialised and
\* may refuse for lack of resources.
C3D_Init(ok) == ok => ~active

\* C3D_GetBufInfo / C3D_GetAttrInfo: a pointer into the driver's context, or
\* null when the driver is not initialised.
C3D_GetBufInfo == IF active THEN "ctx.bufInfo" ELSE "null"
C3D_GetAttrInfo == IF active THEN "ctx.attrInfo" ELSE "null"

\* The value of an Option<buffer::Info> the application holds.
InfoValue(h) == IF h.alias THEN bufInfo ELSE h.val

\* The descriptor a pointer returned by the driver points at.
Pointee(raw) == IF raw = "ctx.bufInfo" THEN bufInfo ELSE attrInfo

\* buffer::Info::copy_from / attrib::Info::copy_from: None for a null pointer,
\* else a copy by value of the pointee.
Info_copy_from(raw) ==
    IF raw = "null" THEN None ELSE Some(Pointee(raw))

\* util::is_linear_ptr: membership of the address in the linear region.
is_linear_ptr(p) == LinearBase <= p /\ p < LinearEnd

\* texenv::Stage::new: the identifier, or an error for an index out of range.
Stage_new(index) ==
    IF index < TEXENV_COUNT
    THEN [ok |-> TRUE, stage |-> index]
    ELSE [ok |-> FALSE, stage |-> index]

\* The Stage values an application can hold: what Stage::new returned as Ok.
Stages == {Stage_new(i).stage : i \in {j \in StageInputs : Stage_new(j).ok}}

\* TexEnv::new(stage): fetches the driver's register block of the stage and
\* initialises it to the neutral combiner configuration.
TexEnv_new(stage, gen) == [stage |-> stage, gen |-> gen, func |-> "Neutral"]
TexEnv_new_calls(stage) ==
    <<[fn |-> "C3D_GetTexEnv", stage |-> stage],
      [fn |-> "C3D_TexEnvInit", stage |-> stage]>>

\* Uniform::bind: the upload call matching the value's variant.
Uniform_bind_call(ty, index, uniform) ==
    [fn |-> IF uniform = "Matrix4x4" THEN "C3D_FVUnifMtx4x4" ELSE "C3D_FVUnifSet",
     type |-> ty, slot |-> index]

\* --------------------------------------------------------------- Init
NoFrame == [how |-> "none", begins |-> 0, ends |-> 0]

InitState ==
    /\ instances = [s \in Slots |-> NoInstance]
    /\ stack = <<>>
    /\ fatal = FALSE
    /\ active = FALSE
    /\ open = 0
    /\ bufInfo = EmptyBufInfo
    /\ attrInfo = EmptyAttrInfo
    /\ target = "none"
    /\ calls = <<>>
    /\ lastOp = [name |-> "start"]
    /\ finished = NoFrame
    /\ held = None

\* The start of a program whose driver calls are not recorded.
Init == InitState /\ trace = NotRecording

\* The start of a program run with its driver calls recorded.
InitRecorded == InitState /\ trace = Recording

\* ------------------------------------------------------ construction
NewInstance == [NoInstance EXCEPT !.status = "live"]

\* The slot the application puts a newly constructed Instance in.
FreeSlot == CHOOSE s \in Slots : ~Live(s) /\ \A t \in Slots : ~Live(t) => s <= t

\* with_cmdbuf_size with the result of C3D_Init ignored: always Ok(Self).
with_cmdbuf_size_unchecked(size) ==
    /\ ~fatal
    /\ \E s \in Slots : ~Live(s)
    /\ \E ok \in BOOLEAN :
        /\ C3D_Init(ok)
        /\ active' = (active \/ ok)
        /\ calls' = <<[fn |-> "C3D_Init", size |-> size, ret |-> ok]>>
        /\ instances' = [instances EXCEPT ![FreeSlot] = NewInstance]
        /\ lastOp' = [name |-> "with_cmdbuf_size", size |-> size,
                      wasLive |-> LiveSlots # {}, ret |-> ok, result |-> "Ok"]
    /\ UNCHANGED <<stack, fatal, open, bufInfo, attrInfo, target, finished, held>>
    /\ trace' = Record(calls')

\* with_cmdbuf_size building Self before it looks at the result of C3D_Init:
\* on failure the value built is dropped, and its Drop calls C3D_Fini.
with_cmdbuf_size_self_first(size) ==
    /\ ~fatal
    /\ \E s \in Slots : ~Live(s)
    /\ \E ok \in BOOLEAN :
        /\ C3D_Init(ok)
        /\ active' = ok
        /\ calls' = IF ok THEN <<[fn |-> "C3D_Init", size |-> size, ret |-> ok]>>
                          ELSE <<[fn |-> "C3D_Init", size |-> size, ret |-> ok],
                                 [fn |-> "C3D_Fini"]>>
        /\ instances' = IF ok THEN [instances EXCEPT ![FreeSlot] = NewInstance]
                              ELSE instances
        /\ lastOp' = [name |-> "with_cmdbuf_size", size |-> size,
                      wasLive |-> LiveSlots # {}, ret |-> ok,
                      result |-> IF ok THEN "Ok" ELSE "FailedToInitialize"]
    /\ UNCHANGED <<stack, fatal, open, bufInfo, attrInfo, target, finished, held>>
    /\ trace' = Record(calls')

\* Instance::with_cmdbuf_size: Ok(Self) with six empty cells when C3D_Init
\* returns true, Err(FailedToInitialize) otherwise.
with_cmdbuf_size(size) ==
    /\ ~fatal
    /\ \E s \in Slots : ~Live(s)
    /\ \E ok \in BOOLEAN :
        /\ C3D_Init(ok)
        /\ active' = (active \/ ok)
        /\ calls' = <<[fn |-> "C3D_Init", size |-> size, ret |-> ok]>>
        /\ instances' = IF ok THEN [instances EXCEPT ![FreeSlot] = NewInstance]
                              ELSE instances
        /\ lastOp' = [name |-> "with_cmdbuf_size", size |-> size,
                      wasLive |-> LiveSlots # {}, ret |-> ok,
                      result |-> IF ok THEN "Ok" ELSE "FailedToInitialize"]
    /\ UNCHANGED <<stack, fatal, open, bufInfo, attrInfo, target, finished, held>>
    /\ trace' = Record(calls')

\* Instance::new: with_cmdbuf_size with the default command buffer size.
new == with_cmdbuf_size(C3D_DEFAULT_CMDBUF_SIZE)

\* A Drop that does not call C3D_Fini.
Instance_drop_without_fini(s) ==
    /\ active' = active
    /\ calls' = <<>>
    /\ instances' = [instances EXCEPT ![s] =
                        [NoInstance EXCEPT
                           !.status = "dropped",
                           !.finis = instances[s].finis + Count(calls', "C3D_Fini")]]

\* impl Drop for Instance: C3D_Fini.
Instance_drop(s) ==
    /\ active' = FALSE
    /\ calls' = <<[fn |-> "C3D_Fini"]>>
    /\ instances' = [instances EXCEPT ![s] =
                        [NoInstance EXCEPT
                           !.status = "dropped",
                           !.finis = instances[s].finis + Count(calls', "C3D_Fini")]]

\* The application lets an Instance go out of scope.  An Instance borrowed by
\* a render_frame_with in progress cannot be dropped.
drop(s) ==
    /\ ~fatal
    /\ Live(s)
    /\ s \notin Borrowed
    /\ Instance_drop(s)
    /\ lastOp' = [name |-> "drop", inst |-> s, unwinding |-> FALSE]
    /\ UNCHANGED <<stack, fatal, open, bufInfo, attrInfo, target, finished, held>>
    /\ trace' = Record(calls')

\* ------------------------------------------------------ frame bracket
Top == stack[Len(stack)]
Pop == SubSeq(stack, 1, Len(stack) - 1)

\* render_frame_with calling the body without the call of C3D_FrameBegin.
render_frame_with_begin_unopened(s) ==
    /\ Callable(s)
    /\ Len(stack) < MaxDepth
    /\ open' = open
    /\ calls' = <<>>
    /\ stack' = Append(stack, [inst |-> s, begins |-> 1, ends |-> 0])
    /\ lastOp' = [name |-> "render_frame_with", inst |-> s, phase |-> "begin"]
    /\ UNCHANGED <<instances, fatal, active, bufInfo, attrInfo, target,
                   finished, held>>
    /\ trace' = Record(calls')

\* Instance::render_frame_with, up to the call of the body: C3D_FrameBegin
\* with the SYNCDRAW flag, then f(self).  The body runs as the operations that
\* follow, on the reference it was handed.
render_frame_with_begin(s) ==
    /\ Callable(s)
    /\ Len(stack) < MaxDepth
    /\ open' = open + 1
    /\ calls' = <<[fn |-> "C3D_FrameBegin", flags |-> C3D_FRAME_SYNCDRAW]>>
    /\ stack' = Append(stack, [inst |-> s,
                                begins |-> Count(calls', "C3D_FrameBegin"),
                                ends |-> 0])
    /\ lastOp' = [name |-> "render_frame_with", inst |-> s, phase |-> "begin"]
    /\ UNCHANGED <<instances, fatal, active, bufInfo, attrInfo, target,
                   finished, held>>
    /\ trace' = Record(calls')

\* render_frame_with returning without the call of C3D_FrameEnd.
render_frame_with_end_unclosed ==
    /\ ~fatal
    /\ stack # <<>>
    /\ open' = open
    /\ calls' = <<>>
    /\ stack' = Pop
    /\ finished' = [how |-> "returned", begins |-> Top.begins,
                    ends |-> Top.ends + Count(calls', "C3D_FrameEnd")]
    /\ lastOp' = [name |-> "render_frame_with", inst |-> Top.inst,
                  phase |-> "end"]
    /\ UNCHANGED <<instances, fatal, active, bufInfo, attrInfo, target, held>>
    /\ trace' = Record(calls')

\* render_frame_with treating the stage cache as a resource of the frame:
\* it empties the cells when the frame ends.
render_frame_with_end_cache_reset ==
    /\ ~fatal
    /\ stack # <<>>
    /\ open' = open - 1
    /\ calls' = <<[fn |-> "C3D_FrameEnd", flags |-> 0]>>
    /\ stack' = Pop
    /\ finished' = [how |-> "returned", begins |-> Top.begins,
                    ends |-> Top.ends + Count(calls', "C3D_FrameEnd")]
    /\ lastOp' = [name |-> "render_frame_with", inst |-> Top.inst,
                  phase |-> "end"]
    /\ instances' = [instances EXCEPT
                        ![Top.inst].texenvs = [i \in StageIndices |-> EmptyCell]]
    /\ UNCHANGED <<fatal, active, bufInfo, attrInfo, target, held>>
    /\ trace' = Record(calls')

\* Instance::render_frame_with, after the body has returned: C3D_FrameEnd(0).
render_frame_with_end ==
    /\ ~fatal
    /\ stack # <<>>
    /\ open' = open - 1
    /\ calls' = <<[fn |-> "C3D_FrameEnd", flags |-> 0]>>
    /\ stack' = Pop
    /\ finished' = [how |-> "returned", begins |-> Top.begins,
                    ends |-> Top.ends + Count(calls', "C3D_FrameEnd")]
    /\ lastOp' = [name |-> "render_frame_with", inst |-> Top.inst,
                  phase |-> "end"]
    /\ UNCHANGED <<instances, fatal, active, bufInfo, attrInfo, target, held>>
    /\ trace' = Record(calls')

\* ---------------------------------------------------- render target
\* select_render_target with the result of C3D_FrameDrawOn ignored.
select_render_target_unchecked(s, t) ==
    /\ Callable(s)
    /\ \E ok \in BOOLEAN :
        /\ target' = IF ok THEN t ELSE target
        /\ calls' = <<[fn |-> "C3D_FrameDrawOn", target |-> t, ret |-> ok]>>
        /\ lastOp' = [name |-> "select_render_target", inst |-> s,
                      target |-> t, ret |-> ok, result |-> "Ok"]
    /\ UNCHANGED <<instances, stack, fatal, active, open, bufInfo, attrInfo,
                   finished, held>>
    /\ trace' = Record(calls')

\* Instance::select_render_target: C3D_FrameDrawOn, whose result the driver
\* decides; Ok(()) when it returns true, Err(InvalidRenderTarget) otherwise.
select_render_target(s, t) ==
    /\ Callable(s)
    /\ \E ok \in BOOLEAN :
        /\ target' = IF ok THEN t ELSE target
        /\ calls' = <<[fn |-> "C3D_FrameDrawOn", target |-> t, ret |-> ok]>>
        /\ lastOp' = [name |-> "select_render_target", inst |-> s,
                      target |-> t, ret |-> ok,
                      result |-> IF ok THEN "Ok" ELSE "InvalidRenderTarget"]
    /\ UNCHANGED <<instances, stack, fatal, active, open, bufInfo, attrInfo,
                   finished, held>>
    /\ trace' = Record(calls')

\* ------------------------------------------- buffer and attribute info
\* Instance::buffer_info: C3D_GetBufInfo, then a copy of what it points at.
\* The application keeps the Option returned, or lets it go.
buffer_info(s, keep) ==
    /\ Callable(s)
    /\ calls' = <<[fn |-> "C3D_GetBufInfo"]>>
    /\ held' = IF keep THEN Info_copy_from(C3D_GetBufInfo) ELSE held
    /\ lastOp' = [name |-> "buffer_info", inst |-> s,
                  info |-> Info_copy_from(C3D_GetBufInfo)]
    /\ UNCHANGED <<instances, stack, fatal, driver, finished>>
    /\ trace' = Record(calls')

\* The body of Instance::set_buffer_info: C3D_SetBufInfo copies the descriptor
\* into the driver's context.  Gives the descriptor the driver holds afterwards
\* and the driver calls issued.
C3D_SetBufInfo(info) == [fn |-> "C3D_SetBufInfo", info |-> info]

\* set_buffer_info without its call of C3D_SetBufInfo.
Instance_set_buffer_info_dropped(info) ==
    [bufInfo |-> bufInfo, calls |-> <<>>]

Instance_set_buffer_info(info) ==
    [bufInfo |-> info, calls |-> <<C3D_SetBufInfo(info)>>]

\* Instance::set_buffer_info, called by the application.
set_buffer_info(s, info) ==
    /\ Callable(s)
    /\ bufInfo' = Instance_set_buffer_info(info).bufInfo
    /\ calls' = Instance_set_buffer_info(info).calls
    /\ lastOp' = [name |-> "set_buffer_info", inst |-> s, info |-> info]
    /\ UNCHANGED <<instances, stack, fatal, active, open, attrInfo, target,
                   finished, held>>
    /\ trace' = Record(calls')

\* Instance::attr_info: C3D_GetAttrInfo, then a copy of what it points at.
attr_info(s) ==
    /\ Callable(s)
    /\ calls' = <<[fn |-> "C3D_GetAttrInfo"]>>
    /\ lastOp' = [name |-> "attr_info", inst |-> s,
                  info |-> Info_copy_from(C3D_GetAttrInfo)]
    /\ UNCHANGED <<instances, stack, fatal, driver, finished, held>>
    /\ trace' = Record(calls')

\* set_attr_info keeping the descriptor for later instead of passing it on.
set_attr_info_deferred(s, info) ==
    /\ Callable(s)
    /\ attrInfo' = attrInfo
    /\ calls' = <<>>
    /\ lastOp' = [name |-> "set_attr_info", inst |-> s, info |-> info]
    /\ UNCHANGED <<instances, stack, fatal, active, open, bufInfo, target,
                   finished, held>>
    /\ trace' = Record(calls')

\* Instance::set_attr_info: C3D_SetAttrInfo copies the descriptor.
set_attr_info(s, info) ==
    /\ Callable(s)
    /\ attrInfo' = info
    /\ calls' = <<[fn |-> "C3D_SetAttrInfo", info |-> info]>>
    /\ lastOp' = [name |-> "set_attr_info", inst |-> s, info |-> info]
    /\ UNCHANGED <<instances, stack, fatal, active, open, bufInfo, target,
                   finished, held>>
    /\ trace' = Record(calls')

\* --------------------------------------------------------------- draws
\* draw_arrays drawing from whatever descriptor the driver holds, without
\* its call of set_buffer_info.
draw_arrays_without_bind(s, primitive, vbo_data) ==
    /\ Callable(s)
    /\ bufInfo' = bufInfo
    /\ calls' = <<[fn |-> "C3D_DrawArrays", primitive |-> primitive,
                   first |-> vbo_data.index, count |-> vbo_data.len]>>
    /\ lastOp' = [name |-> "draw_arrays", inst |-> s, primitive |-> primitive,
                  info |-> vbo_data.info, slice |-> vbo_data, result |-> "Ok"]
    /\ UNCHANGED <<instances, stack, fatal, active, open, attrInfo, target,
                   finished, held>>
    /\ trace' = Record(calls')

\* Instance::draw_arrays: set_buffer_info(vbo_data.info()), then
\* C3D_DrawArrays(primitive, vbo_data.index(), vbo_data.len()).
draw_arrays(s, primitive, vbo_data) ==
    /\ Callable(s)
    /\ bufInfo' = Instance_set_buffer_info(vbo_data.info).bufInfo
    /\ calls' = Instance_set_buffer_info(vbo_data.info).calls \o
                <<[fn |-> "C3D_DrawArrays", primitive |-> primitive,
                   first |-> vbo_data.index, count |-> vbo_data.len]>>
    /\ lastOp' = [name |-> "draw_arrays", inst |-> s, primitive |-> primitive,
                  info |-> vbo_data.info, slice |-> vbo_data, result |-> "Ok"]
    /\ UNCHANGED <<instances, stack, fatal, active, open, attrInfo, target,
                   finished, held>>
    /\ trace' = Record(calls')

\* IndexType::len: the length of the sequence of either variant.
IndexType_len(indices) == indices.len

\* `len as i32` on the 32-bit target: a length up to i32::MAX is kept, a
\* larger one wraps to a negative number.
as_i32(n) == IF n <= 2147483647 THEN n ELSE (n - 2147483647) - 2147483647 - 2

\* The two element-size flags taken for each other.
IndexType_flag_swapped(indices) ==
    IF indices.kind = "U16" THEN C3D_UNSIGNED_BYTE ELSE C3D_UNSIGNED_SHORT

\* The element-size flag draw_elements passes for each variant.
IndexType_flag(indices) ==
    IF indices.kind = "U16" THEN C3D_UNSIGNED_SHORT ELSE C3D_UNSIGNED_BYTE

\* draw_elements without its assertion.
draw_elements_assert_removed(indices) == TRUE

\* The assertion of draw_elements: the index data is in linear memory.
draw_elements_assert(indices) == is_linear_ptr(indices.ptr)

\* draw_elements reporting a failed residency check as an Err result, after
\* which the body goes on.
draw_elements_error_returned(s, primitive, buf, indices) ==
    /\ Callable(s)
    /\ bufInfo' = Instance_set_buffer_info(buf).bufInfo
    /\ IF draw_elements_assert(indices)
       THEN calls' = Instance_set_buffer_info(buf).calls \o
                     <<[fn |-> "C3D_DrawElements", primitive |-> primitive,
                        count |-> as_i32(IndexType_len(indices)),
                        flag |-> IndexType_flag(indices),
                        ptr |-> indices.ptr]>>
       ELSE calls' = Instance_set_buffer_info(buf).calls
    /\ fatal' = FALSE
    /\ lastOp' = [name |-> "draw_elements", inst |-> s, primitive |-> primitive,
                  info |-> buf, indices |-> indices,
                  result |-> IF draw_elements_assert(indices) THEN "Ok"
                                                              ELSE "Err"]
    /\ UNCHANGED <<instances, stack, active, open, attrInfo, target,
                   finished, held>>
    /\ trace' = Record(calls')

\* draw_elements making its residency check first and binding the descriptor
\* only once the check has passed.
draw_elements_check_first(s, primitive, buf, indices) ==
    /\ Callable(s)
    /\ IF draw_elements_assert(indices)
       THEN /\ bufInfo' = Instance_set_buffer_info(buf).bufInfo
            /\ calls' = Instance_set_buffer_info(buf).calls \o
                        <<[fn |-> "C3D_DrawElements", primitive |-> primitive,
                           count |-> as_i32(IndexType_len(indices)),
                           flag |-> IndexType_flag(indices),
                           ptr |-> indices.ptr]>>
            /\ fatal' = FALSE
       ELSE /\ bufInfo' = bufInfo
            /\ calls' = <<>>
            /\ fatal' = TRUE
    /\ lastOp' = [name |-> "draw_elements", inst |-> s, primitive |-> primitive,
                  info |-> buf, indices |-> indices,
                  result |-> IF draw_elements_assert(indices) THEN "Ok"
                                                              ELSE "panic"]
    /\ UNCHANGED <<instances, stack, active, open, attrInfo, target,
                   finished, held>>
    /\ trace' = Record(calls')

\* Instance::draw_elements: set_buffer_info(buf), the assertion, which panics
\* when it fails, then C3D_DrawElements(primitive, len as i32, flag, pointer).
draw_elements(s, primitive, buf, indices) ==
    /\ Callable(s)
    /\ bufInfo' = Instance_set_buffer_info(buf).bufInfo
    /\ IF draw_elements_assert(indices)
       THEN /\ calls' = Instance_set_buffer_info(buf).calls \o
                        <<[fn |-> "C3D_DrawElements", primitive |-> primitive,
                           count |-> as_i32(IndexType_len(indices)),
                           flag |-> IndexType_flag(indices),
                           ptr |-> indices.ptr]>>
            /\ fatal' = FALSE
       ELSE /\ calls' = Instance_set_buffer_info(buf).calls
            /\ fatal' = TRUE
    /\ lastOp' = [name |-> "draw_elements", inst |-> s, primitive |-> primitive,
                  info |-> buf, indices |-> indices,
                  result |-> IF draw_elements_assert(indices) THEN "Ok"
                                                              ELSE "panic"]
    /\ UNCHANGED <<instances, stack, active, open, attrInfo, target,
                   finished, held>>
    /\ trace' = Record(calls')

\* --------------------------------------------------------------- binds
\* Instance::bind_program: C3D_BindProgram.
bind_program(s, program) ==
    /\ Callable(s)
    /\ calls' = <<[fn |-> "C3D_BindProgram", program |-> program]>>
    /\ lastOp' = [name |-> "bind_program", inst |-> s, program |-> program]
    /\ UNCHANGED <<instances, stack, fatal, driver, finished, held>>
    /\ trace' = Record(calls')

\* bind_vertex_uniform passing the shader type of bind_geometry_uniform.
bind_vertex_uniform_as_geometry(s, index, uniform) ==
    /\ Callable(s)
    /\ calls' = <<Uniform_bind_call("Geometry", index, uniform)>>
    /\ lastOp' = [name |-> "bind_vertex_uniform", inst |-> s, index |-> index,
                  uniform |-> uniform]
    /\ UNCHANGED <<instances, stack, fatal, driver, finished, held>>
    /\ trace' = Record(calls')

\* Instance::bind_vertex_uniform: uniform.bind(self, Type::Vertex, index).
bind_vertex_uniform(s, index, uniform) ==
    /\ Callable(s)
    /\ calls' = <<Uniform_bind_call("Vertex", index, uniform)>>
    /\ lastOp' = [name |-> "bind_vertex_uniform", inst |-> s, index |-> index,
                  uniform |-> uniform]
    /\ UNCHANGED <<instances, stack, fatal, driver, finished, held>>
    /\ trace' = Record(calls')

\* Instance::bind_geometry_uniform: uniform.bind(self, Type::Geometry, index).
bind_geometry_uniform(s, index, uniform) ==
    /\ Callable(s)
    /\ calls' = <<Uniform_bind_call("Geometry", index, uniform)>>
    /\ lastOp' = [name |-> "bind_geometry_uniform", inst |-> s, index |-> index,
                  uniform |-> uniform]
    /\ UNCHANGED <<instances, stack, fatal, driver, finished, held>>
    /\ trace' = Record(calls')

\* ------------------------------------------------------------- texenv
\* texenv indexing the cell after the one of the stage.
texenv_slot_off_by_one(stage) == stage + 1

\* self.texenvs[stage.0]: the index of the cell texenv uses.
texenv_slot(stage) == stage

\* texenv replacing the cell's content on every call.
OnceCell_always_runs_init(cell) == TRUE

\* OnceCell::get_or_init runs its closure only on an empty cell.
OnceCell_runs_init(cell) == ~cell.set

\* The number of stages of instance s whose cell is set.
StagesUsed(s) == Cardinality({i \in StageIndices : instances[s].texenvs[i].set})

\* The application keeps to max stages per Instance: it asks for a stage it
\* has used already, or for a new one while fewer than max are in use.
WithinStages(s, stage, max) ==
    instances[s].texenvs[stage].set \/ StagesUsed(s) < max

\* texenv running TexEnv::new for every stage whose cell is still empty.
texenv_init_all(s, stage) ==
    /\ Callable(s)
    /\ fatal' = FALSE
    /\ instances' =
          [instances EXCEPT
             ![s].texenvs = [i \in StageIndices |->
                               IF instances[s].texenvs[i].set
                               THEN instances[s].texenvs[i]
                               ELSE FullCell(TexEnv_new(i, instances[s].inits[i] + 1))],
             ![s].inits = [i \in StageIndices |->
                              IF instances[s].texenvs[i].set
                              THEN instances[s].inits[i]
                              ELSE instances[s].inits[i] + 1]]
    /\ calls' = IF instances[s].texenvs[stage].set THEN <<>>
                                                    ELSE TexEnv_new_calls(stage)
    /\ lastOp' = [name |-> "texenv", inst |-> s, stage |-> stage,
                  slot |-> stage, texenv |-> instances'[s].texenvs[stage].val,
                  result |-> "Ok"]
    /\ UNCHANGED <<stack, driver, finished, held>>
    /\ trace' = Record(calls')

\* Instance::texenv: indexes the cell of the stage (an index outside the array
\* panics), runs TexEnv::new(stage) into it if it is empty, and returns a
\* mutable reference to the TexEnv in the cell.
texenv(s, stage) ==
    /\ Callable(s)
    /\ LET slot == texenv_slot(stage) IN
       IF slot \notin StageIndices
       THEN /\ fatal' = TRUE
            /\ calls' = <<>>
            /\ instances' = instances
            /\ lastOp' = [name |-> "texenv", inst |-> s, stage |-> stage,
                          slot |-> slot, result |-> "panic"]
       ELSE LET cell == instances[s].texenvs[slot]
                gen == instances[s].inits[slot] + 1
            IN  /\ fatal' = FALSE
                /\ IF OnceCell_runs_init(cell)
                   THEN /\ instances' =
                             [instances EXCEPT
                                ![s].texenvs[slot] = FullCell(TexEnv_new(stage, gen)),
                                ![s].inits[slot] = gen]
                        /\ calls' = TexEnv_new_calls(stage)
                        /\ lastOp' = [name |-> "texenv", inst |-> s,
                                      stage |-> stage, slot |-> slot,
                                      texenv |-> TexEnv_new(stage, gen),
                                      result |-> "Ok"]
                   ELSE /\ instances' = instances
                        /\ calls' = <<>>
                        /\ lastOp' = [name |-> "texenv", inst |-> s,
                                      stage |-> stage, slot |-> slot,
                                      texenv |-> cell.val, result |-> "Ok"]
    /\ UNCHANGED <<stack, driver, finished, held>>
    /\ trace' = Record(calls')

\* TexEnv::func, on the reference the texenv call before it returned: sets the
\* combiner function in the driver's register block of the stage.
TexEnv_func(s, stage, func) ==
    /\ Callable(s)
    /\ lastOp.name \in {"texenv", "TexEnv::func"}
    /\ lastOp.inst = s
    /\ lastOp.stage = stage
    /\ instances[s].texenvs[stage].set
    /\ instances' = [instances EXCEPT ![s].texenvs[stage].val.func = func]
    /\ calls' = <<[fn |-> "C3D_TexEnvFunc", stage |-> stage, func |-> func]>>
    /\ lastOp' = [name |-> "TexEnv::func", inst |-> s, stage |-> stage,
                  func |-> func]
    /\ UNCHANGED <<stack, fatal, driver, finished, held>>
    /\ trace' = Record(calls')

\* The application constructs a stage identifier from an index.
StageNew(index) ==
    /\ ~fatal
    /\ calls' = <<>>
    /\ lastOp' = [name |-> "Stage::new", index |-> index,
                  ok |-> Stage_new(index).ok,
                  result |-> IF Stage_new(index).ok THEN "Ok" ELSE "Err"]
    /\ UNCHANGED <<instances, stack, fatal, driver, finished, held>>
    /\ trace' = Record(calls')

\* ----------------------------------------------------------- unwinding
\* A panic unwinds through a render_frame_with in progress: control leaves it
\* without reaching C3D_FrameEnd.
Unwind ==
    /\ fatal
    /\ stack # <<>>
    /\ stack' = Pop
    /\ calls' = <<>>
    /\ finished' = [how |-> "unwound", begins |-> Top.begins, ends |-> Top.ends]
    /\ lastOp' = [name |-> "unwind", inst |-> Top.inst]
    /\ UNCHANGED <<instances, fatal, driver, held>>
    /\ trace' = Record(calls')

\* The unwinding reaches the scope that owns the Instance and drops it.
UnwindDrop(s) ==
    /\ fatal
    /\ stack = <<>>
    /\ Live(s)
    /\ Instance_drop(s)
    /\ lastOp' = [name |-> "drop", inst |-> s, unwinding |-> TRUE]
    /\ UNCHANGED <<stack, fatal, open, bufInfo, attrInfo, target, finished, held>>
    /\ trace' = Record(calls')

\* ---------------------------------------------------------------- Next
Next ==
    \/ new
    \/ \E size \in CmdBufSizes : with_cmdbuf_size(size)
    \/ \E s \in Slots : drop(s)
    \/ \E s \in Slots : render_frame_with_begin(s)
    \/ render_frame_with_end
    \/ \E s \in Slots, t \in Targets : select_render_target(s, t)
    \/ \E s \in Slots : buffer_info(s, FALSE)
    \/ \E s \in Slots, info \in BufInfos : set_buffer_info(s, info)
    \/ \E s \in Slots : attr_info(s)
    \/ \E s \in Slots, info \in AttrInfos : set_attr_info(s, info)
    \/ \E s \in Slots, p \in Primitives, v \in Slices : draw_arrays(s, p, v)
    \/ \E s \in Slots, p \in Primitives, b \in BufInfos, i \in IndexBufs :
          draw_elements(s, p, b, i)
    \/ \E s \in Slots, p \in Programs : bind_program(s, p)
    \/ \E s \in Slots, i \in UniformIndices, u \in Uniforms :
          bind_vertex_uniform(s, i, u)
    \/ \E s \in Slots, i \in UniformIndices, u \in Uniforms :
          bind_geometry_uniform(s, i, u)
    \/ \E s \in Slots, st \in Stages :
          WithinStages(s, st, MaxStagesUsed) /\ texenv(s, st)
    \/ \E i \in StageInputs : StageNew(i)
    \/ Unwind
    \/ \E s \in Slots : UnwindDrop(s)

Spec == Init /\ [][Next]_vars

\* The operations on the driver's buffer descriptor, with an application that
\* keeps the descriptors buffer_info returns.
NextInfo ==
    \/ \E size \in CmdBufSizes : with_cmdbuf_size(size)
    \/ \E s \in Slots : drop(s)
    \/ \E s \in Slots : render_frame_with_begin(s)
    \/ render_frame_with_end
    \/ \E s \in Slots, keep \in BOOLEAN : buffer_info(s, keep)
    \/ \E s \in Slots, info \in BufInfos : set_buffer_info(s, info)
    \/ \E s \in Slots, p \in Primitives, v \in Slices : draw_arrays(s, p, v)
    \/ \E s \in Slots, p \in Primitives, b \in BufInfos, i \in IndexBufs :
          draw_elements(s, p, b, i)
    \/ Unwind
    \/ \E s \in Slots : UnwindDrop(s)

SpecInfo == Init /\ [][NextInfo]_vars

\* The texture-environment stages of an Instance across its frames, with an
\* application that configures the combiner of the stages it uses.
NextTexEnv ==
    \/ new
    \/ \E s \in Slots : drop(s)
    \/ \E s \in Slots : render_frame_with_begin(s)
    \/ render_frame_with_end
    \/ \E s \in Slots, st \in Stages :
          WithinStages(s, st, MaxStagesCombined) /\ texenv(s, st)
    \/ \E s \in Slots, st \in Stages, f \in CombineFuncs : TexEnv_func(s, st, f)

SpecTexEnv == Init /\ [][NextTexEnv]_vars

\* The stages the application of a frame body configures: the first and the
\* last.
FrameStages == {s \in Stages : s = 0 \/ s = TEXENV_COUNT - 1}

\* The body of a frame: the state-setting operations and the draws, with an
\* application that also sets the combiner function of the stage it uses.
NextFrame ==
    \/ new
    \/ \E s \in Slots : drop(s)
    \/ \E s \in Slots : render_frame_with_begin(s)
    \/ render_frame_with_end
    \/ \E s \in Slots, info \in BufInfos : set_buffer_info(s, info)
    \/ \E s \in Slots, info \in AttrInfos : set_attr_info(s, info)
    \/ \E s \in Slots, p \in Programs : bind_program(s, p)
    \/ \E s \in Slots, i \in UniformIndices, u \in Uniforms :
          bind_vertex_uniform(s, i, u)
    \/ \E s \in Slots, i \in UniformIndices, u \in Uniforms :
          bind_geometry_uniform(s, i, u)
    \/ \E s \in Slots, st \in FrameStages :
          WithinStages(s, st, MaxStagesUsed) /\ texenv(s, st)
    \/ \E s \in Slots, st \in FrameStages, f \in CombineFuncs :
          TexEnv_func(s, st, f)
    \/ \E s \in Slots, p \in Primitives, v \in Slices : draw_arrays(s, p, v)
    \/ \E s \in Slots, p \in Primitives, b \in BufInfos, i \in IndexBufs :
          draw_elements(s, p, b, i)
    \/ Unwind
    \/ \E s \in Slots : UnwindDrop(s)

SpecFrame == Init /\ [][NextFrame]_vars

\* The triangle scenario, step by step: construct, open the frame, select a
\* target, set buffer and attribute info, bind a vertex uniform at slot 0,
\* draw three vertices from a slice, close the frame.  Each step is the next
\* statement of the application; a construction or target selection that
\* fails ends the scenario.
Scenario_construct ==
    /\ lastOp.name = "start"
    /\ \E size \in CmdBufSizes : with_cmdbuf_size(size)

Scenario_begin_frame ==
    /\ lastOp.name = "with_cmdbuf_size"
    /\ lastOp.result = "Ok"
    /\ \E s \in Slots : render_frame_with_begin(s)

Scenario_select_target ==
    /\ lastOp.name = "render_frame_with"
    /\ lastOp.phase = "begin"
    /\ \E s \in Slots, t \in Targets : select_render_target(s, t)

Scenario_set_buffer_info ==
    /\ lastOp.name = "select_render_target"
    /\ lastOp.result = "Ok"
    /\ \E s \in Slots, info \in BufInfos : set_buffer_info(s, info)

Scenario_set_attr_info ==
    /\ lastOp.name = "set_buffer_info"
    /\ \E s \in Slots, info \in AttrInfos : set_attr_info(s, info)

Scenario_bind_uniform ==
    /\ lastOp.name = "set_attr_info"
    /\ \E s \in Slots, u \in Uniforms : bind_vertex_uniform(s, 0, u)

Scenario_draw ==
    /\ lastOp.name = "bind_vertex_uniform"
    /\ \E s \in Slots, p \in Primitives, v \in Slices : draw_arrays(s, p, v)

Scenario_end_frame ==
    /\ lastOp.name = "draw_arrays"
    /\ render_frame_with_end

NextScenario ==
    \/ Scenario_construct
    \/ Scenario_begin_frame
    \/ Scenario_select_target
    \/ Scenario_set_buffer_info
    \/ Scenario_set_attr_info
    \/ Scenario_bind_uniform
    \/ Scenario_draw
    \/ Scenario_end_frame

SpecScenario == InitRecorded /\ [][NextScenario]_vars

\* =============================================================== claims
\* The linear region, stated from its bounds.
InLinearRegion(p) == p \in LinearBase..(LinearEnd - 1)

C2_BracketsNeverOverlap == open <= 1

\* C3: at most one Instance is live, and a construction attempted while one
\* is live fails with FailedToInitialize.
C3_SingleInstance ==
    /\ Cardinality(LiveSlots) <= 1
    /\ (lastOp.name = "with_cmdbuf_size" /\ lastOp.wasLive)
          => lastOp.result = "FailedToInitialize"

\* A construction was attempted while an Instance was live, and was refused.
C3_Witness ==
    /\ lastOp.name = "with_cmdbuf_size"
    /\ lastOp.wasLive
    /\ lastOp.result = "FailedToInitialize"
    /\ Cardinality(LiveSlots) = 1

\* C4: a dropped Instance has had C3D_Fini called exactly once and a live one
\* not at all; every driver call other than C3D_Init is made while the driver
\* is initialised, and C3D_Fini is the last call of its operation and leaves
\* the driver finalised, so that nothing but a C3D_Init can follow it.
C4_FiniOnceAndLast ==
    /\ [](\A s \in Slots :
            /\ instances[s].status = "dropped" => instances[s].finis = 1
            /\ instances[s].status = "live" => instances[s].finis = 0 /\ active)
    /\ [][\A k \in 1..Len(calls') :
            calls'[k].fn # "C3D_Init" =>
               /\ active
               /\ calls'[k].fn = "C3D_Fini" => (k = Len(calls') /\ ~active')]_vars

\* An Instance was dropped, and finalised, with no frame ever rendered.
C4_Witness ==
    /\ lastOp.name = "drop"
    /\ instances[lastOp.inst].status = "dropped"
    /\ instances[lastOp.inst].finis = 1
    /\ finished.how = "none"
    /\ open = 0

\* C5: a construction whose C3D_Init returned false returns
\* FailedToInitialize, creates no Instance and issues no C3D_Fini; C3D_Fini is
\* only ever issued by a step that ends the life of an Instance.
C5_FailedInitLeavesNothing ==
    /\ [][(lastOp'.name = "with_cmdbuf_size" /\ ~lastOp'.ret) =>
            /\ lastOp'.result = "FailedToInitialize"
            /\ instances' = instances
            /\ active' = active
            /\ Count(calls', "C3D_Fini") = 0]_vars
    /\ [][Count(calls', "C3D_Fini") > 0 =>
            \E s \in Slots : /\ instances[s].status = "live"
                             /\ instances'[s].status = "dropped"]_vars

\* C3D_Init failed for lack of resources, with no Instance live.
C5_Witness ==
    /\ lastOp.name = "with_cmdbuf_size"
    /\ ~lastOp.ret
    /\ ~lastOp.wasLive
    /\ lastOp.result = "FailedToInitialize"
    /\ LiveSlots = {}
    /\ ~active

\* C6: within one lifetime of an Instance, TexEnv::new runs at most once for
\* each stage, exactly when the cell of the stage is first filled; every
\* texenv call returns the TexEnv held in the cell of its stage, the one made
\* by that first initialisation; a filled cell keeps that same TexEnv under
\* every operation, and a texenv call on a filled cell issues no driver call.
C6_TexEnvInitOnce ==
    /\ [](\A s \in Slots, i \in StageIndices :
            /\ instances[s].inits[i] <= 1
            /\ instances[s].texenvs[i].set <=> instances[s].inits[i] = 1
            /\ instances[s].texenvs[i].set =>
                  /\ instances[s].texenvs[i].val.stage = i
                  /\ instances[s].texenvs[i].val.gen = 1)
    /\ [](lastOp.name = "texenv" =>
            /\ lastOp.result = "Ok"
            /\ instances[lastOp.inst].texenvs[lastOp.stage].set
            /\ lastOp.texenv = instances[lastOp.inst].texenvs[lastOp.stage].val)
    /\ [][(instances' # instances \/ lastOp'.name = "texenv") =>
          \A s \in Slots, i \in StageIndices :
            (/\ instances[s].status = "live"
             /\ instances'[s].status = "live"
             /\ instances[s].texenvs[i].set) =>
               /\ instances'[s].texenvs[i].set
               /\ instances'[s].texenvs[i].val.gen = instances[s].texenvs[i].val.gen
               /\ instances'[s].texenvs[i].val.stage = i
               /\ instances'[s].inits[i] = instances[s].inits[i]
               /\ (lastOp'.name = "texenv" /\ lastOp'.stage = i) => calls' = <<>>]_vars

\* A texenv call on the last stage found its cell filled and returned the
\* TexEnv of the first initialisation without a driver call.
C6_Witness ==
    /\ lastOp.name = "texenv"
    /\ lastOp.stage = TEXENV_COUNT - 1
    /\ calls = <<>>
    /\ lastOp.texenv.gen = 1
    /\ instances[lastOp.inst].inits[lastOp.stage] = 1

\* C7: a draw_elements whose index data lies in the linear region issues
\* exactly one C3D_DrawElements and does not panic; one whose index data lies
\* outside it panics and issues no C3D_DrawElements.
C7_ResidencyCheck ==
    lastOp.name = "draw_elements" =>
        IF InLinearRegion(lastOp.indices.ptr)
        THEN /\ Count(calls, "C3D_DrawElements") = 1
             /\ lastOp.result = "Ok"
             /\ ~fatal
        ELSE /\ Count(calls, "C3D_DrawElements") = 0
             /\ lastOp.result = "panic"
             /\ fatal

\* A draw_elements with index data outside the linear region has panicked.
C7_Witness ==
    /\ lastOp.name = "draw_elements"
    /\ ~InLinearRegion(lastOp.indices.ptr)
    /\ fatal
    /\ Count(calls, "C3D_DrawElements") = 0

\* C8: Stage::new refuses every index outside 0 .. TEXENV_COUNT - 1, and
\* every texenv call indexes a cell inside the array, without a panic.
C8_StageRange ==
    /\ (lastOp.name = "Stage::new" /\ lastOp.index \notin StageIndices)
          => (lastOp.result = "Err" /\ calls = <<>>)
    /\ (lastOp.name = "Stage::new" /\ lastOp.index \in StageIndices)
          => lastOp.result = "Ok"
    /\ lastOp.name = "texenv"
          => (lastOp.slot \in StageIndices /\ lastOp.result = "Ok" /\ ~fatal)
    /\ Stages = StageIndices

\* Stage::new has refused the first index past the last stage.
C8_Witness ==
    /\ lastOp.name = "Stage::new"
    /\ lastOp.index = TEXENV_COUNT
    /\ lastOp.result = "Err"

\* The value, after a step, of an Option<buffer::Info> held after the step.
InfoValueAfter(h) == IF h.alias THEN bufInfo' ELSE h.val

\* C9: a buffer_info that immediately follows set_buffer_info(B) returns
\* Some(B); a descriptor the application obtained from buffer_info and kept
\* has the same value after any later operation that is not a buffer_info,
\* set_buffer_info and the draws included.
C9_BufferInfoRoundTrip ==
    /\ [][(lastOp.name = "set_buffer_info" /\ lastOp'.name = "buffer_info") =>
            /\ lastOp'.info.some
            /\ InfoValueAfter(lastOp'.info) = lastOp.info]_vars
    /\ [][(held.some /\ lastOp'.name # "buffer_info") =>
            (held'.some /\ InfoValueAfter(held') = InfoValue(held))]_vars

\* buffer_info has returned the descriptor of stride 24, 2 attributes and
\* permutation 0x10 that the driver holds.
C9_Witness ==
    /\ lastOp.name = "buffer_info"
    /\ lastOp.info = Some([stride |-> 24, attrs |-> 2, perm |-> 16])
    /\ held = lastOp.info
    /\ bufInfo = lastOp.info.val

\* C10: a select_render_target whose C3D_FrameDrawOn returned false returns
\* InvalidRenderTarget and leaves the instance, the brackets and the driver's
\* descriptors and target as they were; one whose C3D_FrameDrawOn returned
\* true returns Ok.
C10_SelectTargetFailure ==
    [][lastOp'.name = "select_render_target" =>
         IF lastOp'.ret
         THEN lastOp'.result = "Ok"
         ELSE /\ lastOp'.result = "InvalidRenderTarget"
              /\ UNCHANGED <<instances, stack, fatal, active, open, bufInfo,
                             attrInfo, target, finished, held>>]_vars

\* A target selection was refused inside an open bracket, with a stage
\* initialised, descriptors set and a target bound before.
C10_Witness ==
    /\ lastOp.name = "select_render_target"
    /\ lastOp.target = "bottom"
    /\ ~lastOp.ret
    /\ lastOp.result = "InvalidRenderTarget"
    /\ open = 1
    /\ target = "top"
    /\ bufInfo \in BufInfos
    /\ attrInfo \in AttrInfos
    /\ StagesUsed(lastOp.inst) = 1

\* The driver calls that submit a draw.
IsDrawCall(c) == c.fn \in {"C3D_DrawArrays", "C3D_DrawElements"}

\* C12: every C3D_DrawArrays or C3D_DrawElements call is issued by a draw
\* operation right after the C3D_SetBufInfo call that carries the descriptor
\* supplied to that operation, with no driver call between the two, and the
\* driver then holds that descriptor.
C12_BindBeforeEveryDraw ==
    \A k \in 1..Len(calls) :
        IsDrawCall(calls[k]) =>
            /\ lastOp.name \in {"draw_arrays", "draw_elements"}
            /\ k > 1
            /\ calls[k - 1] = C3D_SetBufInfo(lastOp.info)
            /\ bufInfo = lastOp.info

\* A draw_arrays from a slice of the 12-byte-stride buffer has reached the
\* driver inside a bracket, with attribute info set before.
C12_Witness ==
    /\ lastOp.name = "draw_arrays"
    /\ lastOp.info = [stride |-> 12, attrs |-> 1, perm |-> 0]
    /\ Count(calls, "C3D_DrawArrays") = 1
    /\ open = 1
    /\ attrInfo \in AttrInfos

\* C14: a draw_elements whose index data is outside the linear region does
\* not return a result: it panics; and from the panic on no operation of the
\* body runs: the only steps are the unwinding of the brackets and the drop
\* of the Instance, and the only driver call is the C3D_Fini of that drop.
C14_FatalStopsTheBody ==
    /\ []((lastOp.name = "draw_elements" /\ ~InLinearRegion(lastOp.indices.ptr))
            => (lastOp.result = "panic" /\ fatal))
    /\ [][fatal =>
            /\ fatal'
            /\ lastOp'.name \in {"unwind", "drop"}
            /\ \A k \in 1..Len(calls') : calls'[k].fn = "C3D_Fini"]_vars

\* The panic of a draw_elements has unwound a bracket, which stays open.
C14_Witness ==
    /\ fatal
    /\ lastOp.name = "unwind"
    /\ finished.how = "unwound"
    /\ calls = <<>>
    /\ open >= 1

\* C15: a draw_elements whose index data is in the linear region passes to
\* C3D_DrawElements the primitive supplied, the length of the sequence, the
\* flag C3D_UNSIGNED_SHORT for a 16-bit and C3D_UNSIGNED_BYTE for an 8-bit
\* sequence, and the address of the sequence's own data.
C15_DrawElementsArguments ==
    (lastOp.name = "draw_elements" /\ InLinearRegion(lastOp.indices.ptr)) =>
        /\ Len(calls) = 2
        /\ calls[2].fn = "C3D_DrawElements"
        /\ calls[2].primitive = lastOp.primitive
        /\ calls[2].count = lastOp.indices.len
        /\ lastOp.indices.kind = "U16" => calls[2].flag = C3D_UNSIGNED_SHORT
        /\ lastOp.indices.kind = "U8" => calls[2].flag = C3D_UNSIGNED_BYTE
        /\ calls[2].ptr = lastOp.indices.ptr

\* An 8-bit sequence of two indices in linear memory has been drawn.
C15_Witness ==
    /\ lastOp.name = "draw_elements"
    /\ lastOp.indices.kind = "U8"
    /\ lastOp.indices.len = 2
    /\ InLinearRegion(lastOp.indices.ptr)
    /\ Count(calls, "C3D_DrawElements") = 1

\* C18: as long as no panic has occurred, a step that calls C3D_Fini is
\* taken with no bracket open and no render_frame_with in progress.
C18_NoFiniInsideBracket ==
    [][(Count(calls', "C3D_Fini") > 0 /\ ~fatal') =>
          (open = 0 /\ stack = <<>> /\ open' = 0)]_vars

\* An Instance was dropped, without a panic, after a frame it rendered.
C18_Witness ==
    /\ lastOp.name = "drop"
    /\ ~lastOp.unwinding
    /\ ~fatal
    /\ Count(calls, "C3D_Fini") = 1
    /\ finished.how = "returned"
    /\ open = 0

\* C19: a draw_elements that panics has bound its descriptor first: its only
\* driver call is the C3D_SetBufInfo of the descriptor supplied, the driver
\* holds that descriptor afterwards, and no draw call was issued.
C19_BindSurvivesFailedCheck ==
    [][(lastOp'.name = "draw_elements" /\ lastOp'.result # "Ok") =>
          /\ calls' = <<C3D_SetBufInfo(lastOp'.info)>>
          /\ bufInfo' = lastOp'.info
          /\ \A k \in 1..Len(calls') : ~IsDrawCall(calls'[k])
          /\ fatal']_vars

\* A draw_elements that first followed a set_buffer_info of the other
\* descriptor has panicked and left its own descriptor bound.
C19_Witness ==
    /\ lastOp.name = "draw_elements"
    /\ lastOp.result = "panic"
    /\ lastOp.info = [stride |-> 12, attrs |-> 1, perm |-> 0]
    /\ bufInfo = lastOp.info
    /\ calls = <<C3D_SetBufInfo(lastOp.info)>>

\* C16: while an Instance lives, a stage whose cell is filled has its cell
\* filled after every step, the opening and the closing of a bracket and a
\* change of its combiner function included, and no step runs TexEnv::new for
\* it again.
C16_StageStaysInitialized ==
    [][\A s \in Slots, i \in StageIndices :
         (/\ instances[s].status = "live"
          /\ instances'[s].status = "live"
          /\ instances[s].texenvs[i].set) =>
            /\ instances'[s].texenvs[i].set
            /\ instances'[s].inits[i] = instances[s].inits[i]
            /\ \A k \in 1..Len(calls') :
                  calls'[k].fn = "C3D_TexEnvInit" => calls'[k].stage # i]_vars

\* A bracket has closed around a stage that was initialised once and whose
\* combiner function was changed since.
C16_Witness ==
    /\ lastOp.name = "render_frame_with"
    /\ lastOp.phase = "end"
    /\ instances[lastOp.inst].texenvs[0].set
    /\ instances[lastOp.inst].texenvs[0].val.func = "Add"
    /\ instances[lastOp.inst].inits[0] = 1

\* C20: a texenv call for a stage leaves the cell of every other stage, empty
\* or filled, as it was, runs no initialisation for another stage and issues
\* no driver call for another stage; it leaves every other Instance alone.
C20_TexEnvTouchesOnlyItsStage ==
    [][lastOp'.name = "texenv" =>
         /\ \A j \in StageIndices \ {lastOp'.stage} :
               /\ instances'[lastOp'.inst].texenvs[j] =
                     instances[lastOp'.inst].texenvs[j]
               /\ instances'[lastOp'.inst].inits[j] =
                     instances[lastOp'.inst].inits[j]
               /\ \A k \in 1..Len(calls') : calls'[k].stage # j
         /\ \A s \in Slots \ {lastOp'.inst} : instances'[s] = instances[s]]_vars

\* The first texenv call for stage 0 has initialised it while the last stage
\* holds a combiner function set before and the stages between are empty.
C20_Witness ==
    /\ lastOp.name = "texenv"
    /\ lastOp.stage = 0
    /\ Len(calls) = 2
    /\ instances[lastOp.inst].texenvs[TEXENV_COUNT - 1].set
    /\ instances[lastOp.inst].texenvs[TEXENV_COUNT - 1].val.func = "Modulate"
    /\ ~instances[lastOp.inst].texenvs[1].set
    /\ StagesUsed(lastOp.inst) = 2

\* The driver calls of a draw, a program or uniform bind, a texenv access and
\* a render-target selection.
FrameCalls ==
    {"C3D_DrawArrays", "C3D_DrawElements", "C3D_BindProgram",
     "C3D_FVUnifMtx4x4", "C3D_FVUnifSet", "C3D_GetTexEnv", "C3D_TexEnvInit",
     "C3D_TexEnvFunc", "C3D_FrameDrawOn"}

\* C17 as stated: a draw, bind, texenv or target-selection call reaches the
\* driver only while a bracket is open.
C17_NoCallOutsideBracket ==
    \A k \in 1..Len(calls) : calls[k].fn \in FrameCalls => open >= 1

\* C17, amended: such a call reaches the driver whenever the operation is
\* called; it does so inside an open bracket exactly when the operation is
\* called by the body of a render_frame_with.
C17_CallInsideBracketIffInBody ==
    \A k \in 1..Len(calls) :
        calls[k].fn \in FrameCalls => (open >= 1 <=> stack # <<>>)

\* The body of a render_frame_with has bound a vertex uniform.
C17_Witness ==
    /\ lastOp.name = "bind_vertex_uniform"
    /\ Len(calls) = 1
    /\ calls[1].fn \in FrameCalls
    /\ stack # <<>>
    /\ open = 1

\* The names of the driver functions called, in the order of the calls.
Fns(cs) == [k \in 1..Len(cs) |-> cs[k].fn]

\* The calls of the sequence that are not calls of one driver function.
Without(cs, fn) == SelectSeq(cs, LAMBDA c : c.fn # fn)

\* The uploads of a uniform value.
UniformUploads(cs) ==
    Count(cs, "C3D_FVUnifMtx4x4") + Count(cs, "C3D_FVUnifSet")

\* The scenario has run to the end of its frame.
ScenarioDone == lastOp.name = "render_frame_with" /\ lastOp.phase = "end"

\* C11 as stated: at the end of the scenario the trace holds one
\* C3D_FrameBegin and one C3D_FrameEnd, one C3D_FrameDrawOn, one
\* C3D_SetBufInfo, one C3D_SetAttrInfo, one uniform upload and one
\* C3D_DrawArrays, in that order, and no panic has occurred.
C11_ScenarioTraceOneOfEach ==
    ScenarioDone =>
        LET cs == Without(trace.calls, "C3D_Init") IN
        /\ ~fatal
        /\ Len(cs) = 7
        /\ cs[1].fn = "C3D_FrameBegin"
        /\ cs[2].fn = "C3D_FrameDrawOn"
        /\ cs[3].fn = "C3D_SetBufInfo"
        /\ cs[4].fn = "C3D_SetAttrInfo"
        /\ UniformUploads(<<cs[5]>>) = 1
        /\ cs[6].fn = "C3D_DrawArrays"
        /\ cs[7].fn = "C3D_FrameEnd"

\* C11, amended: at the end of the scenario the trace is C3D_Init,
\* C3D_FrameBegin, C3D_FrameDrawOn, C3D_SetBufInfo with B, C3D_SetAttrInfo
\* with A, one upload of the uniform to slot 0 of the vertex stage, a second
\* C3D_SetBufInfo with the descriptor of the slice drawn, C3D_DrawArrays with
\* the primitive, first index and count of the draw, and C3D_FrameEnd; no
\* panic has occurred.  Up to that point no call is out of this order.
C11_ScenarioTrace ==
    /\ ~fatal
    /\ \A k \in 1..Len(trace.calls) : k > 1 => trace.calls[k].fn # "C3D_Init"
    /\ ScenarioDone =>
        /\ Len(trace.calls) = 9
        /\ Fns(Without(Without(trace.calls, "C3D_FVUnifMtx4x4"), "C3D_FVUnifSet")) =
              <<"C3D_Init", "C3D_FrameBegin", "C3D_FrameDrawOn",
                "C3D_SetBufInfo", "C3D_SetAttrInfo", "C3D_SetBufInfo",
                "C3D_DrawArrays", "C3D_FrameEnd">>
        /\ trace.calls[3].target = target
        /\ trace.calls[4].info \in BufInfos
        /\ trace.calls[5].info = attrInfo
        /\ trace.calls[6].fn \in {"C3D_FVUnifMtx4x4", "C3D_FVUnifSet"}
        /\ trace.calls[6].type = "Vertex"
        /\ trace.calls[6].slot = 0
        /\ trace.calls[7].info = bufInfo
        /\ trace.calls[8].count = 3
        /\ trace.calls[8].first = 0

\* The scenario has ended with a 4x4 matrix uploaded and three vertices drawn
\* as triangles from a slice of the buffer described by B.
C11_Witness ==
    /\ ScenarioDone
    /\ Len(trace.calls) = 9
    /\ trace.calls[6].fn = "C3D_FVUnifMtx4x4"
    /\ trace.calls[4].info = trace.calls[7].info
    /\ trace.calls[8].primitive = "Triangles"
    /\ open = 0

\* A step taken by the body of a render_frame_with in progress.
BodyStep == stack # <<>> /\ stack' # <<>> /\ ~fatal

\* The step is a draw whose draw call reaches the driver.
DrawReachesDriver == \E k \in 1..Len(calls') : IsDrawCall(calls'[k])

\* Each state-setting operation passes its value to the driver at once, by
\* the one driver call of its kind, and the driver holds the value when the
\* operation returns.
SettersForwardAtOnce ==
    /\ lastOp'.name = "set_buffer_info" =>
          (calls' = <<C3D_SetBufInfo(lastOp'.info)>> /\ bufInfo' = lastOp'.info)
    /\ lastOp'.name = "set_attr_info" =>
          /\ calls' = <<[fn |-> "C3D_SetAttrInfo", info |-> lastOp'.info]>>
          /\ attrInfo' = lastOp'.info
    /\ lastOp'.name = "TexEnv::func" =>
          /\ calls' = <<[fn |-> "C3D_TexEnvFunc", stage |-> lastOp'.stage,
                         func |-> lastOp'.func]>>
          /\ instances'[lastOp'.inst].texenvs[lastOp'.stage].val.func =
                lastOp'.func
    /\ lastOp'.name = "bind_program" =>
          calls' = <<[fn |-> "C3D_BindProgram", program |-> lastOp'.program]>>
    /\ lastOp'.name \in {"bind_vertex_uniform", "bind_geometry_uniform"} =>
          /\ Len(calls') = 1
          /\ UniformUploads(calls') = 1
          /\ calls'[1].slot = lastOp'.index
          /\ calls'[1].type = IF lastOp'.name = "bind_vertex_uniform"
                              THEN "Vertex" ELSE "Geometry"

\* Between two state-setting operations of one kind nothing disturbs what the
\* first has set, for the kinds other than buffer info: no other operation
\* changes the driver's attribute info or the combiner function of a stage,
\* or issues a program bind or a uniform upload.
OthersLeaveSettingsAlone ==
    /\ lastOp'.name # "set_attr_info" =>
          (attrInfo' = attrInfo /\ Count(calls', "C3D_SetAttrInfo") = 0)
    /\ lastOp'.name # "bind_program" => Count(calls', "C3D_BindProgram") = 0
    /\ lastOp'.name \notin {"bind_vertex_uniform", "bind_geometry_uniform"} =>
          UniformUploads(calls') = 0
    /\ lastOp'.name # "TexEnv::func" =>
          /\ Count(calls', "C3D_TexEnvFunc") = 0
          /\ \A s \in Slots, i \in StageIndices :
                instances[s].texenvs[i].set =>
                   /\ instances'[s].texenvs[i].set
                   /\ instances'[s].texenvs[i].val.func =
                         instances[s].texenvs[i].val.func

====
